---------------------------- MODULE Spec2Model ----------------------------
(***************************************************************************)
(* A model of alsd.py, the Ableton Live set dumping utility: the value     *)
(* conversions (int, float, BoolValue), type inference for automation      *)
(* values, the time-signature codec, and the constructors of the node      *)
(* classes (ALSNode, ALSTrackMixerParam, ALSTrackMixer, LiveSetMidiClipData,*)
(* LiveSetDeviceData, LiveSetTrackData, LiveSetData).                      *)
(*                                                                         *)
(* Python values are tagged records: None, str (a sequence of one-character*)
(* strings), int, float (an exact decimal n/d, d a power of ten), bool.    *)
(* A raised exception is the value Raise(exc).                             *)
(***************************************************************************)
EXTENDS Integers, Sequences, FiniteSets, TLC

VARIABLES op, elem, obj, ret

vars == <<op, elem, obj, ret>>

\* ------------------------------------------------------------ Python values

None == [t |-> "none"]
PyStr(s) == [t |-> "str", s |-> s]
PyInt(i) == [t |-> "int", i |-> i]
PyBool(b) == [t |-> "bool", b |-> b]
PyFloat(n, d) == [t |-> "float", n |-> n, d |-> d]
Raise(exc) == [t |-> "raise", exc |-> exc]

\* A Python tuple (x, y).
Tuple(x, y) == [t |-> "tuple", x |-> x, y |-> y]

IsRaise(v) == v.t = "raise"

\* The results of a list comprehension: whether an item raised, and the
\* exception of the first that did.
AnyRaise(seq) == \E k \in 1..Len(seq) : IsRaise(seq[k])
FirstRaise(seq) ==
    seq[CHOOSE k \in 1..Len(seq) : IsRaise(seq[k]) /\ \A j \in 1..(k - 1) : ~IsRaise(seq[j])]

\* Python truth value of a value (None, "", 0, 0.0 and False are false).
Truthy(v) ==
    CASE v.t = "none" -> FALSE
      [] v.t = "str" -> Len(v.s) > 0
      [] v.t = "int" -> v.i # 0
      [] v.t = "float" -> v.n # 0
      [] v.t = "bool" -> v.b
      [] OTHER -> TRUE

\* ------------------------------------------------------------------ bounds

MaxStrLen == 3
MaxEncoded == 400

\* The characters attribute values are written with in this model.  Python's
\* int() and float() also accept surrounding whitespace, and float() an
\* exponent and the words inf and nan; none can be written with these.
Alphabet == {"1", "0", "-", ".", "a"}

SeqsUpTo(S, n) == UNION {[1..k -> S] : k \in 0..n}

s_true == <<"t", "r", "u", "e">>
s_false == <<"f", "a", "l", "s", "e">>
s_abc == <<"a", "b", "c">>
s_3 == <<"3">>
s_2_5 == <<"2", ".", "5">>
s_0_75 == <<"0", ".", "7", "5">>
s_2_0 == <<"2", ".", "0">>
s_10_0 == <<"1", "0", ".", "0">>
s_Lead == <<"L", "e", "a", "d">>

Literals == {s_true, s_false, s_abc, s_3, s_2_5, s_0_75, s_2_0, s_10_0, s_Lead}

Strings == SeqsUpTo(Alphabet, MaxStrLen) \cup Literals

\* --------------------------------------------------------- int() and float()

Digits == {"0", "1", "2", "3", "4", "5", "6", "7", "8", "9"}

DigitVal(c) ==
    CASE c = "0" -> 0 [] c = "1" -> 1 [] c = "2" -> 2 [] c = "3" -> 3
      [] c = "4" -> 4 [] c = "5" -> 5 [] c = "6" -> 6 [] c = "7" -> 7
      [] c = "8" -> 8 [] c = "9" -> 9

AllDigits(s) == \A k \in 1..Len(s) : s[k] \in Digits

RECURSIVE DigitsVal(_)
DigitsVal(s) ==
    IF Len(s) = 0 THEN 0
    ELSE 10 * DigitsVal(SubSeq(s, 1, Len(s) - 1)) + DigitVal(s[Len(s)])

RECURSIVE Pow10(_)
Pow10(k) == IF k = 0 THEN 1 ELSE 10 * Pow10(k - 1)

HasSign(s) == Len(s) > 0 /\ s[1] \in {"+", "-"}
Unsigned(s) == IF HasSign(s) THEN Tail(s) ELSE s
SignOf(s) == IF HasSign(s) /\ s[1] = "-" THEN -1 ELSE 1

\* int(s) succeeds: an optional sign, then one or more decimal digits.
IntParses(s) == Len(Unsigned(s)) > 0 /\ AllDigits(Unsigned(s))

IntOf(s) == SignOf(s) * DigitsVal(Unsigned(s))

\* Position of the decimal point in s, 0 when there is none.
DotAt(s) == IF \E k \in 1..Len(s) : s[k] = "."
            THEN CHOOSE k \in 1..Len(s) : s[k] = "." /\ \A j \in 1..(k - 1) : s[j] # "."
            ELSE 0

\* float(s) succeeds: an optional sign, then digits with at most one decimal
\* point and at least one digit ("2", "2.5", "2.", ".5").
FloatParses(s) ==
    LET u == Unsigned(s)
        p == DotAt(u)
        whole == IF p = 0 THEN u ELSE SubSeq(u, 1, p - 1)
        frac == IF p = 0 THEN <<>> ELSE SubSeq(u, p + 1, Len(u))
    IN  /\ AllDigits(whole)
        /\ AllDigits(frac)
        /\ Len(whole) + Len(frac) > 0

\* n/d with the common factors of ten removed, so that equal numbers are
\* equal values.
RECURSIVE Norm(_, _)
Norm(n, d) == IF d > 1 /\ n % 10 = 0 THEN Norm(n \div 10, d \div 10) ELSE PyFloat(n, d)

FloatOf(s) ==
    LET u == Unsigned(s)
        p == DotAt(u)
        whole == IF p = 0 THEN u ELSE SubSeq(u, 1, p - 1)
        frac == IF p = 0 THEN <<>> ELSE SubSeq(u, p + 1, Len(u))
    IN  Norm(SignOf(s) * (DigitsVal(whole) * Pow10(Len(frac)) + DigitsVal(frac)),
             Pow10(Len(frac)))

\* a - b on floats.
FloatSub(a, b) == Norm(a.n * b.d - b.n * a.d, a.d * b.d)

\* a < b on floats.
FloatLess(a, b) == a.n * b.d < b.n * a.d

\* ------------------------------------------------------------ type functions

\* The type functions a value is converted with; NoType is Python's None in
\* self.type, for which the identity is used.
NoType == "None"
TypeFuncs == {"BoolValue", "int", "float"}

BoolValue(v) == PyBool(v = PyStr(s_true))

\* fn(v) for fn one of BoolValue, int, float, or the identity for NoType.
Apply(fn, v) ==
    CASE fn = NoType -> v
      [] fn = "BoolValue" -> BoolValue(v)
      [] fn = "int" ->
            IF v.t # "str" THEN Raise("TypeError")
            ELSE IF IntParses(v.s) THEN PyInt(IntOf(v.s)) ELSE Raise("ValueError")
      [] fn = "float" ->
            IF v.t # "str" THEN Raise("TypeError")
            ELSE IF FloatParses(v.s) THEN FloatOf(v.s) ELSE Raise("ValueError")

guessTypeForValue_FloatFirst(v) ==
    IF v = None THEN NoType
    ELSE IF v \in {PyStr(s_true), PyStr(s_false)} THEN "BoolValue"
    ELSE IF ~IsRaise(Apply("float", v)) THEN "float"
    ELSE IF ~IsRaise(Apply("int", v)) THEN "int"
    ELSE NoType

guessTypeForValue(v) ==
    IF v = None THEN NoType
    ELSE IF v \in {PyStr(s_true), PyStr(s_false)} THEN "BoolValue"
    ELSE IF ~IsRaise(Apply("int", v)) THEN "int"
    ELSE IF ~IsRaise(Apply("float", v)) THEN "float"
    ELSE NoType

\* ------------------------------------------------------- time-signature codec

\* x << n
RECURSIVE Shl(_, _)
Shl(x, n) == IF n = 0 THEN x ELSE 2 * Shl(x, n - 1)

\* The integer a bool or int value counts as in arithmetic.
AsInt(v) == IF v.t = "bool" THEN (IF v.b THEN 1 ELSE 0) ELSE v.i

decodeTimeSignature_NoPlusOne(encoded) ==
    IF encoded.t \notin {"int", "bool"} THEN Raise("TypeError")
    ELSE IF AsInt(encoded) < 0 THEN Raise("ValueError")
    ELSE Tuple(AsInt(encoded) % 99, Shl(1, AsInt(encoded) \div 99))

\* (encoded%99+1, 1<<(encoded/99)); / is floor division on integers, a
\* negative shift count raises ValueError, and a str, float or None operand
\* raises TypeError.
decodeTimeSignature(encoded) ==
    IF encoded.t \notin {"int", "bool"} THEN Raise("TypeError")
    ELSE IF AsInt(encoded) < 0 THEN Raise("ValueError")
    ELSE Tuple((AsInt(encoded) % 99) + 1, Shl(1, AsInt(encoded) \div 99))

\* --------------------------------------------------------------- elements

\* An XML element is a record; its Value attribute is None when it carries
\* none.  A find() that matches nothing is None.
Element(value) == [t |-> "elem", Value |-> value]

\* the maybe monad (alsd.py, bind)
bind(val, f(_)) == IF val = None THEN None ELSE f(val)

\* elem.find(selector) among the subelements the entity's fields are read
\* from: e.sub maps a selector to the first element it matches, or to None.
find(e, selector) == IF selector \in DOMAIN e.sub THEN e.sub[selector] ELSE None

valueForSubtag(e, selector) == bind(find(e, selector), LAMBDA x : x.Value)

boolValueForSubtag(e, selector) == PyBool(valueForSubtag(e, selector) = PyStr(s_true))

\* ------------------------------------------------------------------ ALSNode

\* A valuefields table is a sequence of (key, fspec) entries in the order
\* items() yields them.  An fspec is a bare type function (form "bare", with
\* type NoType for None), a (type, sel) tuple, or a dict with optional sel,
\* ivar and type entries.
BareSpec(key, type) == [key |-> key, form |-> "bare", type |-> type]
TupleSpec(key, type, sel) == [key |-> key, form |-> "tuple", type |-> type, sel |-> sel]

\* key[0].lower()+key[1:] on the keys of the tables.
LowerFirst(key) ==
    CASE key = "Name" -> "name"
      [] key = "Annotation" -> "annotation"
      [] key = "LaunchMode" -> "launchMode"
      [] key = "CurrentStart" -> "currentStart"
      [] key = "CurrentEnd" -> "currentEnd"
      [] OTHER -> key

\* fspec.get(name, default) of a dict-form fspec.
Get(fspec, name, default) == IF name \in DOMAIN fspec.dict THEN fspec.dict[name] ELSE default

\* The (sel, ivar, vtype) an entry resolves to.
Resolve(entry) ==
    CASE entry.form = "dict" ->
            [sel |-> Get(entry, "sel", entry.key), ivar |-> Get(entry, "ivar", entry.key),
             vtype |-> Get(entry, "type", NoType)]
      [] entry.form = "tuple" ->
            [sel |-> entry.sel, ivar |-> entry.key, vtype |-> entry.type]
      [] OTHER ->
            [sel |-> entry.key, ivar |-> LowerFirst(entry.key), vtype |-> entry.type]

LiveSetMidiClipData_valuefields ==
    << BareSpec("Name", NoType), BareSpec("Annotation", NoType), BareSpec("LaunchMode", "int"),
       BareSpec("CurrentStart", "float"), BareSpec("CurrentEnd", "float"),
       TupleSpec("loopStart", "float", "Loop/LoopStart"),
       TupleSpec("loopEnd", "float", "Loop/LoopEnd"),
       TupleSpec("loopStartRelative", "float", "Loop/LoopStartRelative") >>

LiveSetTrackData_valuefields == << BareSpec("Name", NoType) >>

\* try: val = vtype(val) / except ValueError: pass, on the outcome
\* `converted` of vtype(val).
ExceptValueError(converted, val) == IF converted = Raise("ValueError") THEN val ELSE converted

\* if val: try: val = vtype(val) / except ValueError: pass
Converted(val, vtype) ==
    IF Truthy(val) /\ vtype # NoType THEN ExceptValueError(Apply(vtype, val), val) ELSE val

ExtractField_AlwaysConvert(e, sel, vtype) ==
    IF Truthy(valueForSubtag(e, sel)) /\ vtype # NoType
    THEN Apply(vtype, valueForSubtag(e, sel))
    ELSE valueForSubtag(e, sel)

\* The body of the loop of ALSNode.__init__ for one entry: the value stored
\* in the instance variable, or the exception that escapes (only ValueError
\* is caught).
ExtractField(e, sel, vtype) == Converted(valueForSubtag(e, sel), vtype)

\* The last of the resolved entries that names the instance variable iv.
LastEntry(entries, iv) ==
    entries[CHOOSE k \in 1..Len(entries) :
                entries[k].ivar = iv /\ \A j \in (k + 1)..Len(entries) : entries[j].ivar # iv]

\* The instance variables after the loop over the resolved entries: each
\* ivar holds what the last entry that names it stored.
HydrateEntries(entries, e) ==
    [iv \in {entries[k].ivar : k \in 1..Len(entries)} |->
        ExtractField(e, LastEntry(entries, iv).sel, LastEntry(entries, iv).vtype)]

\* The instance variables after the loop over the table.
Hydrate(valuefields, e) ==
    HydrateEntries([k \in 1..Len(valuefields) |-> Resolve(valuefields[k])], e)

\* The instance with the instance variables d, or the exception one of the
\* extractions raised.
NodeOf(d) ==
    IF \E iv \in DOMAIN d : IsRaise(d[iv])
    THEN (CHOOSE x \in {d[iv] : iv \in DOMAIN d} : IsRaise(x))
    ELSE [t |-> "node", dict |-> d]

\* ALSNode.__init__: the instance variables, or the exception raised.
ALSNode_init(valuefields, e) == NodeOf(Hydrate(valuefields, e))

Selectors(valuefields) == {Resolve(valuefields[k]).sel : k \in 1..Len(valuefields)}

\* The subelements a selector can match: none, one without a Value attribute,
\* or one whose Value is any of these strings.
FieldStrings ==
    {<<>>, <<"1">>, <<"-", "1">>, <<"1", ".", "0">>, <<".">>, <<"a">>, s_true, s_2_0, s_10_0}
SubElements == {Element(None)} \cup {Element(PyStr(s)) : s \in FieldStrings}

MaxSubelements == 2

\* The element whose subelements among `sels` are those g gives.
ElementWith(sels, g) ==
    [t |-> "elem", Value |-> None,
     sub |-> [s \in sels |-> IF s \in DOMAIN g THEN g[s] ELSE None]]

\* The sets of at most n of the selectors `sels`.
Present(sels, n) == {Q \in SUBSET sels : Cardinality(Q) <= n}

\* ------------------------------------------------------- ALSTrackMixerParam

\* An automatable parameter element: its tag, its Manual subelement (in sub),
\* whether it has an ArrangerAutomation child, and the children of
\* ArrangerAutomation/Events in document order, each with a Time and a Value
\* attribute (None when missing).
ParamElement(tag, manual, automation, events) ==
    [t |-> "elem", tag |-> tag, Value |-> None, sub |-> [Manual |-> manual],
     automation |-> automation, events |-> events]

AutomationEvent(time, value) == [Time |-> time, Value |-> value]

\* The tuple (x, y) of two evaluated operands, or the exception the first of
\* them to raise raised.
TupleOf(x, y) == IF IsRaise(x) THEN x ELSE IF IsRaise(y) THEN y ELSE Tuple(x, y)

\* (int(e.get('Time')), typefunc(e.get('Value'))) for one event.
EventOf(typefunc, ev) == TupleOf(Apply("int", ev.Time), Apply(typefunc, ev.Value))

\* The parameter with the inferred type, the manual value as read and the
\* evaluated events, or the exception the first event to raise raised.
ParamOf(type, manual, events) ==
    IF AnyRaise(events) THEN FirstRaise(events)
    ELSE [t |-> "ALSTrackMixerParam", type |-> type,
          manual |-> Apply(type, manual), events |-> events]

\* The parameter of element e once self.type is inferred.
ParamOfType(type, e) ==
    ParamOf(type, valueForSubtag(e, "Manual"),
            [k \in 1..Len(e.events) |-> EventOf(type, e.events[k])])

ALSTrackMixerParam_init_TypePerEvent(e) ==
    ParamOf(guessTypeForValue(valueForSubtag(e, "Manual")), valueForSubtag(e, "Manual"),
            [k \in 1..Len(e.events) |->
                EventOf(guessTypeForValue(e.events[k].Value), e.events[k])])

\* ALSTrackMixerParam.__init__: the object, or the exception raised.
ALSTrackMixerParam_init(e) == ParamOfType(guessTypeForValue(valueForSubtag(e, "Manual")), e)

MaxEvents == 2

\* The Manual subelements and automation events parameters are built from.
ManualElements ==
    {None, Element(None)} \cup
    {Element(PyStr(s)) : s \in {<<>>, s_true, s_false, s_3, s_0_75, s_abc, <<"-", "1">>}}

EventTimes == {None, PyStr(<<"a">>), PyStr(<<"-", "1">>), PyStr(<<"1">>)}
EventValues == {None, PyStr(s_true), PyStr(s_3), PyStr(s_2_5), PyStr(s_abc)}

AutomationEvents == {AutomationEvent(time, value) : time \in EventTimes, value \in EventValues}

\* ------------------------------------------------------------ ALSTrackMixer

\* A mixer element: its children in document order.
MixerElement(children) == [t |-> "elem", Value |-> None, sub |-> <<>>, children |-> children]

\* elem.findall("*[ArrangerAutomation]")
WithAutomation(children) == SelectSeq(children, LAMBDA c : c.automation)

\* The last of the elements `found` with the given tag.
LastTagged(found, tag) ==
    CHOOSE k \in 1..Len(found) :
        found[k].tag = tag /\ \A j \in (k + 1)..Len(found) : found[j].tag # tag

\* dict([(e.tag, built) ...]) of the parameters built from `found`, or the
\* exception the first constructor to raise raised.
MixerOf(found, built) ==
    IF AnyRaise(built) THEN FirstRaise(built)
    ELSE [t |-> "ALSTrackMixer",
          params |-> [tag \in {found[k].tag : k \in 1..Len(found)} |->
                         built[LastTagged(found, tag)]]]

MixerOfFound(found) ==
    MixerOf(found, [k \in 1..Len(found) |-> ALSTrackMixerParam_init(found[k])])

\* ALSTrackMixer.__init__: params maps each tag to the parameter built from
\* the last child with that tag.
ALSTrackMixer_init(e) == MixerOfFound(WithAutomation(e.children))

\* -------------------------------------------------------- LiveSetDeviceData

s_Synth == <<"S", "y", "n", "t", "h">>
s_Pad == <<"P", "a", "d">>
s_Vst == <<"V", "s", "t">>
s_Reverb == <<"R", "e", "v", "e", "r", "b">>
s_AuPluginDevice == <<"A", "u", "P", "l", "u", "g", "i", "n", "D", "e", "v", "i", "c", "e">>
s_sep == <<":", " ">>

\* What the text of a preset Buffer element is: no text at all, text with an
\* odd number of hex digits, hex of bytes that are no property list, hex of
\* a property list whose root is an array, or hex of a property list whose
\* root is the dict d.
NoText == [t |-> "buffer", payload |-> "notext"]
OddHex == [t |-> "buffer", payload |-> "oddhex"]
NotPlist == [t |-> "buffer", payload |-> "notplist"]
PlistArray == [t |-> "buffer", payload |-> "array"]
PlistDict(d) == [t |-> "buffer", payload |-> "dict", dict |-> d]

\* LiveSetAuPluginPresetData(e.text): decodeHexString raises on text that is
\* None or of odd length, readPlistFromString on bytes that are no property
\* list, and plist.get on a root that is no dict.
LiveSetAuPluginPresetData(b) ==
    CASE b.payload = "notext" -> Raise("AttributeError")
      [] b.payload = "oddhex" -> Raise("TypeError")
      [] b.payload = "notplist" -> Raise("ExpatError")
      [] b.payload = "array" -> Raise("AttributeError")
      [] OTHER -> [t |-> "LiveSetAuPluginPresetData",
                   name |-> IF "name" \in DOMAIN b.dict THEN b.dict["name"] ELSE None]

\* A device element: its tag, the subelements find() is called for, and its
\* PluginDesc/AuPluginInfo/Preset/AuPreset/Buffer element (None when absent).
DeviceElement(tag, userName, auName, plugName, buffer) ==
    [t |-> "elem", tag |-> tag, Value |-> None,
     sub |-> [s \in {"UserName", "PluginDesc/AuPluginInfo/Name",
                     "PluginDesc/VstPluginInfo/PlugName"} |->
                 CASE s = "UserName" -> userName
                   [] s = "PluginDesc/AuPluginInfo/Name" -> auName
                   [] OTHER -> plugName],
     buffer |-> buffer]

\* a or b
Or(a, b) == IF Truthy(a) THEN a ELSE b

\* ': '.join([v for v in [x, y] if v is not None])
JoinNotNone(x, y) ==
    IF x = None /\ y = None THEN PyStr(<<>>)
    ELSE IF y = None THEN x
    ELSE IF x = None THEN y
    ELSE PyStr(x.s \o s_sep \o y.s)

\* The second operand of the or chain of presetName.
AuCandidate(e, auPresetName) ==
    bind(find(e, "PluginDesc/AuPluginInfo/Name"), LAMBDA x : JoinNotNone(x.Value, auPresetName))

presetName_AuFirst(e, auPresetName) ==
    Or(AuCandidate(e, auPresetName),
       Or(valueForSubtag(e, "UserName"),
          Or(valueForSubtag(e, "PluginDesc/VstPluginInfo/PlugName"), PyStr(<<>>))))

presetName(e, auPresetName) ==
    Or(valueForSubtag(e, "UserName"),
       Or(AuCandidate(e, auPresetName),
          Or(valueForSubtag(e, "PluginDesc/VstPluginInfo/PlugName"), PyStr(<<>>))))

\* The device with its evaluated preset buffer, preset name and name.
DeviceOf(e, auPresetBuffer, auPresetName, name) ==
    [t |-> "LiveSetDeviceData", deviceType |-> e.tag,
     auPresetBuffer |-> auPresetBuffer, auPresetName |-> auPresetName,
     presetName |-> name, name |-> PyStr(e.tag.s \o s_sep \o name.s)]

\* The device once its preset buffer is evaluated, or the exception
\* LiveSetAuPluginPresetData raised.
DeviceOfBuffer(e, auPresetBuffer) ==
    IF IsRaise(auPresetBuffer) THEN auPresetBuffer
    ELSE DeviceOf(e, auPresetBuffer, bind(auPresetBuffer, LAMBDA b : b.name),
                  presetName(e, bind(auPresetBuffer, LAMBDA b : b.name)))

\* LiveSetDeviceData.__init__: the object, or the exception raised.
LiveSetDeviceData_init(e) == DeviceOfBuffer(e, bind(e.buffer, LiveSetAuPluginPresetData))

NameElements(name) == {None, Element(None), Element(PyStr(<<>>)), Element(PyStr(name))}

Buffers ==
    {None, NoText, OddHex, NotPlist, PlistArray, PlistDict(<<>>),
     PlistDict([k \in {"name"} |-> PyStr(<<>>)]), PlistDict([k \in {"name"} |-> PyStr(s_Pad)])}

\* ------------------------------------------------------ LiveSetMidiClipData

\* A WarpMarker element and a MidiNoteEvent element: their attributes, None
\* when missing.
WarpMarkerElement(secTime, beatTime) == [SecTime |-> secTime, BeatTime |-> beatTime]

NoteElement(time, duration, velocity, offVelocity, isEnabled) ==
    [Time |-> time, Duration |-> duration, Velocity |-> velocity,
     OffVelocity |-> offVelocity, IsEnabled |-> isEnabled]

\* A KeyTrack element: its MidiKey subelement (None when absent) and its
\* Notes/MidiNoteEvent children in document order.
KeyTrackElement(midiKey, events) == [MidiKey |-> midiKey, events |-> events]

\* A MidiClip element: the subelements its fields are read from, its
\* WarpMarkers/WarpMarker children and its Notes/KeyTracks/KeyTrack children.
ClipElement(sub, warpmarkers, keytracks) ==
    [t |-> "elem", Value |-> None, sub |-> sub,
     warpmarkers |-> warpmarkers, keytracks |-> keytracks]

\* The warp marker with its two converted times, or the exception the first
\* conversion to raise raised.
WarpMarkerOf(secTime, beatTime) ==
    IF IsRaise(secTime) THEN secTime
    ELSE IF IsRaise(beatTime) THEN beatTime
    ELSE [t |-> "ALSWarpMarker", secTime |-> secTime, beatTime |-> beatTime]

\* ALSWarpMarker.__init__
ALSWarpMarker(e) == WarpMarkerOf(Apply("float", e.SecTime), Apply("float", e.BeatTime))

\* The note with the conversions `conv` of its Time, Duration, Velocity and
\* OffVelocity, or the exception the first of them to raise raised.
MidiNoteOf(key, conv, isEnabled) ==
    IF AnyRaise(conv) THEN FirstRaise(conv)
    ELSE [t |-> "ALSMidiNote", time |-> conv[1], key |-> key, duration |-> conv[2],
          velocity |-> conv[3], offVelocity |-> conv[4], isEnabled |-> isEnabled]

\* ALSMidiNote.__init__: the conversions are evaluated left to right.
ALSMidiNote(key, e) ==
    MidiNoteOf(key,
               <<Apply("float", e.Time), Apply("float", e.Duration),
                 Apply("float", e.Velocity), Apply("int", e.OffVelocity)>>,
               PyBool(e.IsEnabled = PyStr(s_true)))

\* (both is not None) and end-start or None, on two extracted fields: a
\* field left as a raw string makes the subtraction raise TypeError.
Difference(start, end) ==
    IF start # None /\ end # None
    THEN IF start.t # "float" \/ end.t # "float" THEN Raise("TypeError")
         ELSE Or(FloatSub(end, start), None)
    ELSE None

\* Where the j-th item of s stands after a sort by time that puts it before
\* the items equal to it.
PlaceByTime_BeforeEqual(s, j) ==
    Cardinality({k \in 1..Len(s) :
                    \/ FloatLess(s[k].time, s[j].time)
                    \/ (k >= j /\ ~FloatLess(s[j].time, s[k].time))})

\* Where the j-th item of s stands after list.sort(key=lambda mn:mn.time), a
\* stable sort: after the items that are earlier, and after the items of the
\* same time that precede it in s.
PlaceByTime(s, j) ==
    Cardinality({k \in 1..Len(s) :
                    \/ FloatLess(s[k].time, s[j].time)
                    \/ (k <= j /\ ~FloatLess(s[j].time, s[k].time))})

SortByTime(s) ==
    [i \in 1..Len(s) |-> s[CHOOSE j \in 1..Len(s) : PlaceByTime(s, j) = i]]

\* The list of the notes built for one KeyTrack, or the exception raised by
\* the conversion of its key or by the first note constructor to raise.
NotesOf(note, built) ==
    IF IsRaise(note) THEN note
    ELSE IF AnyRaise(built) THEN FirstRaise(built)
    ELSE [t |-> "list", items |-> built]

\* [ALSMidiNote(note, mne) for mne in ktrk.findall("Notes/MidiNoteEvent")]
NotesWithKey(ktrk, note) ==
    NotesOf(note, [k \in 1..Len(ktrk.events) |-> ALSMidiNote(note, ktrk.events[k])])

\* The notes of one KeyTrack: its key, then one ALSMidiNote per event.
KeyTrackNotes(ktrk) ==
    NotesWithKey(ktrk, bind(ktrk.MidiKey, LAMBDA x : Apply("int", x.Value)))

RECURSIVE Concat(_)
Concat(lists) == IF lists = <<>> THEN <<>> ELSE lists[1].items \o Concat(Tail(lists))

\* The clip with the instance variables d of ALSNode.__init__ and the parts
\* evaluated after them in the order of the statements, or the exception the
\* first part to raise raised.
ClipOf(e, d, warpmarkers, length, loopLength, perTrack) ==
    IF AnyRaise(warpmarkers) THEN FirstRaise(warpmarkers)
    ELSE IF IsRaise(length) THEN length
    ELSE IF IsRaise(loopLength) THEN loopLength
    ELSE IF AnyRaise(perTrack) THEN FirstRaise(perTrack)
    ELSE [t |-> "LiveSetMidiClipData", dict |-> d, warpmarkers |-> warpmarkers,
          length |-> length, loopOn |-> boolValueForSubtag(e, "Loop/LoopOn"),
          loopLength |-> loopLength, notes |-> SortByTime(Concat(perTrack))]

\* The statements after super().__init__(elem), which gave `node`.
ClipOfNode(e, node) ==
    IF IsRaise(node) THEN node
    ELSE ClipOf(e, node.dict,
                [k \in 1..Len(e.warpmarkers) |-> ALSWarpMarker(e.warpmarkers[k])],
                Difference(node.dict["currentStart"], node.dict["currentEnd"]),
                Difference(node.dict["loopStart"], node.dict["loopEnd"]),
                [k \in 1..Len(e.keytracks) |-> KeyTrackNotes(e.keytracks[k])])

\* LiveSetMidiClipData.__init__: the object, or the exception raised.
LiveSetMidiClipData_init(e) ==
    ClipOfNode(e, ALSNode_init(LiveSetMidiClipData_valuefields, e))

MaxNotes == 3

ClipSelectors == Selectors(LiveSetMidiClipData_valuefields) \cup {"Loop/LoopOn"}
NoSubelements == [s \in ClipSelectors |-> None]

s_1 == <<"1">>
s_100 == <<"1", "0", "0">>
s_64 == <<"6", "4">>

\* Note events: equal times written alike ("1", "1") and differently ("1",
\* "1.0"), told apart by their durations, and one without a Time attribute.
NoteElements ==
    { NoteElement(PyStr(s_1), PyStr(s_1), PyStr(s_100), PyStr(s_64), PyStr(s_true)),
      NoteElement(PyStr(s_1), PyStr(s_3), PyStr(s_100), PyStr(s_64), PyStr(s_true)),
      NoteElement(PyStr(<<"1", ".", "0">>), PyStr(s_2_5), PyStr(s_100), PyStr(s_64), PyStr(s_false)),
      NoteElement(PyStr(<<"0">>), PyStr(s_1), PyStr(s_100), PyStr(s_64), PyStr(s_true)),
      NoteElement(None, PyStr(s_1), PyStr(s_100), PyStr(s_64), PyStr(s_true)) }

\* The MidiKey subelements of three KeyTracks.
MidiKeys ==
    { <<Element(PyStr(<<"6", "0">>)), Element(PyStr(<<"6", "1">>)), Element(PyStr(<<"6", "2">>))>>,
      <<Element(PyStr(<<"6", "2">>)), None, Element(PyStr(<<"6", "0">>))>>,
      <<Element(PyStr(<<"6", "0">>)), Element(None), Element(PyStr(<<"6", "2">>))>>,
      <<Element(PyStr(<<"6", "0">>)), Element(PyStr(s_abc)), Element(PyStr(<<"6", "2">>))>> }

\* Three KeyTracks holding the events of s, cut after the p-th and q-th.
KeyTracks(keys, s, p, q) ==
    << KeyTrackElement(keys[1], SubSeq(s, 1, p)),
       KeyTrackElement(keys[2], SubSeq(s, p + 1, q)),
       KeyTrackElement(keys[3], SubSeq(s, q + 1, Len(s))) >>

WarpMarkerElements ==
    { WarpMarkerElement(PyStr(s_1), PyStr(s_2_5)), WarpMarkerElement(PyStr(s_1), None),
      WarpMarkerElement(PyStr(s_abc), PyStr(s_1)) }

\* The ways to cut a sequence of n events into three KeyTracks.
Cuts(n) == {x \in (0..n) \X (0..n) : x[1] <= x[2]}

\* --------------------------------------------------------- LiveSetTrackData

\* A DeviceChain element of a track: its own DeviceChain child (None when
\* absent) with its Devices child (None when absent, else an element with the
\* device elements as children), its Mixer child, and its MainSequencer child with its
\* ClipSlotList child (None when absent, else its ClipSlot children).
DeviceChainElement(devices, mixer, mainSequencer) ==
    [DeviceChain |-> devices, Mixer |-> mixer, MainSequencer |-> mainSequencer]

InnerDeviceChain(devices) == [Devices |-> devices]
Children(children) == [t |-> "elem", Value |-> None, children |-> children]
MainSequencer(clipSlotList) == [ClipSlotList |-> clipSlotList]
ClipSlot(k) == [t |-> "elem", tag |-> "ClipSlot", Value |-> None, slot |-> k]

\* A track element: the subelement its Name is read from, its DeviceChain
\* child (None when absent) and the MidiClip elements anywhere below it.
TrackElement(tag, name, deviceChain, midiclips) ==
    [t |-> "elem", tag |-> tag, Value |-> None, sub |-> [Name |-> name],
     DeviceChain |-> deviceChain, midiclips |-> midiclips]

\* find() along a path of child elements, None as soon as one is missing.
RECURSIVE FindPath(_, _)
FindPath(e, path) ==
    IF path = <<>> THEN e
    ELSE IF e[path[1]] = None THEN None
    ELSE FindPath(e[path[1]], Tail(path))

\* [LiveSetDeviceData(c) for c in devices_elem]: iterating None raises
\* TypeError.
DevicesIn(devices_elem) ==
    IF devices_elem = None THEN <<Raise("TypeError")>>
    ELSE [k \in 1..Len(devices_elem.children) |->
             LiveSetDeviceData_init(devices_elem.children[k])]

\* [LiveSetDeviceData(c) for c in devices_elem] if devices_elem is not None
\* else []
DevicesInGuarded(devices_elem) == IF devices_elem # None THEN DevicesIn(devices_elem) ELSE <<>>

\* self.devices: the devices of device_chain.find("DeviceChain/Devices")
\* when device_chain is not None, else [].
DevicesOf(device_chain) ==
    IF device_chain # None
    THEN DevicesInGuarded(FindPath(device_chain, <<"DeviceChain", "Devices">>))
    ELSE <<>>

\* clip_slot_list.findall("ClipSlot"): None has no attribute findall.
ClipSlotsIn(clip_slot_list) ==
    IF clip_slot_list = None THEN Raise("AttributeError")
    ELSE [t |-> "list", items |-> clip_slot_list.children]

\* clip_slot_list.findall("ClipSlot") if clip_slot_list is not None else []
ClipSlotsOf(clip_slot_list) ==
    IF clip_slot_list # None THEN ClipSlotsIn(clip_slot_list)
    ELSE [t |-> "list", items |-> <<>>]

\* The track with its parts evaluated in the order of the statements, or
\* the exception the first part to raise raised.
TrackOf(e, node, devices, mixer, clipslots, midiclips) ==
    IF IsRaise(node) THEN node
    ELSE IF AnyRaise(devices) THEN FirstRaise(devices)
    ELSE IF IsRaise(mixer) THEN mixer
    ELSE IF IsRaise(clipslots) THEN clipslots
    ELSE IF AnyRaise(midiclips) THEN FirstRaise(midiclips)
    ELSE [t |-> "LiveSetTrackData", dict |-> node.dict, trackType |-> e.tag,
          devices |-> devices, mixer |-> mixer, clipslots |-> clipslots.items,
          midiclips |-> midiclips]

LiveSetTrackData_init_Unguarded(e) ==
    TrackOf(e, ALSNode_init(LiveSetTrackData_valuefields, e),
            DevicesIn(FindPath(e, <<"DeviceChain", "DeviceChain", "Devices">>)),
            bind(FindPath(e, <<"DeviceChain", "Mixer">>), ALSTrackMixer_init),
            ClipSlotsIn(FindPath(e, <<"DeviceChain", "MainSequencer", "ClipSlotList">>)),
            [k \in 1..Len(e.midiclips) |-> LiveSetMidiClipData_init(e.midiclips[k])])

\* LiveSetTrackData.__init__: the object, or the exception raised.
LiveSetTrackData_init(e) ==
    TrackOf(e, ALSNode_init(LiveSetTrackData_valuefields, e),
            DevicesOf(FindPath(e, <<"DeviceChain">>)),
            bind(FindPath(e, <<"DeviceChain", "Mixer">>), ALSTrackMixer_init),
            ClipSlotsOf(FindPath(e, <<"DeviceChain", "MainSequencer", "ClipSlotList">>)),
            [k \in 1..Len(e.midiclips) |-> LiveSetMidiClipData_init(e.midiclips[k])])

MaxDevices == 2
MaxClipSlots == 2

\* The devices, mixers and clips tracks are built from: each kind with an
\* element whose constructor raises.
TrackDevices ==
    { DeviceElement(PyStr(s_Reverb), Element(PyStr(s_Lead)), None, None, None),
      DeviceElement(PyStr(s_AuPluginDevice), None, Element(PyStr(s_Synth)), None,
                    PlistDict([k \in {"name"} |-> PyStr(s_Pad)])),
      DeviceElement(PyStr(s_AuPluginDevice), None, Element(PyStr(s_Synth)), None, OddHex) }

TrackMixers ==
    { None, MixerElement(<<>>),
      MixerElement(<<ParamElement("Volume", Element(PyStr(s_0_75)), TRUE, <<>>)>>),
      MixerElement(<<ParamElement("Volume", Element(PyStr(s_3)), TRUE,
                                  <<AutomationEvent(PyStr(s_1), PyStr(s_abc))>>)>>) }

TrackClips ==
    { <<>>,
      <<ClipElement(NoSubelements, <<>>, <<>>)>>,
      <<ClipElement(NoSubelements, <<WarpMarkerElement(PyStr(s_1), None)>>, <<>>)>> }

DeviceChains ==
    {None} \cup
    { DeviceChainElement(inner, mixer, mainSequencer) :
        inner \in {None, InnerDeviceChain(None)}
                  \cup {InnerDeviceChain(Children(d)) : d \in SeqsUpTo(TrackDevices, MaxDevices)},
        mixer \in TrackMixers,
        mainSequencer \in {None, MainSequencer(None)}
                  \cup {MainSequencer(Children([k \in 1..n |-> ClipSlot(k)])) : n \in 0..MaxClipSlots} }

\* -------------------------------------------------------------- LiveSetData

\* The LiveSet element: the children of its Tracks child and its MasterTrack
\* child (None when absent).
LiveSetElement(tracks, masterTrack) ==
    [t |-> "elem", Value |-> None, Tracks |-> tracks, MasterTrack |-> masterTrack]

\* The live set with its evaluated tracks and master track, or the
\* exception the first track constructor to raise raised.
LiveSetOf(tracks, mastertrack) ==
    IF AnyRaise(tracks) THEN FirstRaise(tracks)
    ELSE IF IsRaise(mastertrack) THEN mastertrack
    ELSE [t |-> "LiveSetData", tracks |-> tracks, mastertrack |-> mastertrack]

\* LiveSetData.__init__: the object, or the exception raised.
LiveSetData_init(live_set) ==
    LiveSetOf([k \in 1..Len(live_set.Tracks) |-> LiveSetTrackData_init(live_set.Tracks[k])],
              bind(live_set.MasterTrack, LiveSetTrackData_init))

Max(a, b) == IF a >= b THEN a ELSE b

TimeSignatureOf_Unclamped(ev) == TupleOf(ev.x, decodeTimeSignature(ev.y))

\* (max(t,0), decodeTimeSignature(enc)) for one event.
TimeSignatureOf(ev) == TupleOf(PyInt(Max(ev.x.i, 0)), decodeTimeSignature(ev.y))

\* The list comprehension of timeSignatures over the events of the
\* TimeSignature parameter.
ListOf(out) == IF AnyRaise(out) THEN FirstRaise(out) ELSE [t |-> "list", items |-> out]

SignaturesOf(events) == ListOf([k \in 1..Len(events) |-> TimeSignatureOf(events[k])])

\* LiveSetData.timeSignatures: the list returned, or the exception raised
\* (None has no attribute mixer or params; params has no key).
timeSignatures(lsd) ==
    IF lsd.mastertrack = None THEN Raise("AttributeError")
    ELSE IF lsd.mastertrack.mixer = None THEN Raise("AttributeError")
    ELSE IF "TimeSignature" \notin DOMAIN lsd.mastertrack.mixer.params THEN Raise("KeyError")
    ELSE SignaturesOf(lsd.mastertrack.mixer.params["TimeSignature"].events)

s_201 == <<"2", "0", "1">>

\* The TimeSignature parameters of a master track: manual values of each
\* type, events out of time order and before time zero.
TimeSignatureEvents ==
    { AutomationEvent(PyStr(time), PyStr(value)) :
        time \in {<<"-", "1">>, <<"1", "0">>, s_3},
        value \in {s_201, s_3, <<"-", "1">>, s_2_5} }

TimeSignatureParams ==
    { ParamElement("TimeSignature", manual, automation, events) :
        manual \in {None, Element(PyStr(s_201)), Element(PyStr(s_2_5)), Element(PyStr(s_true))},
        automation \in {TRUE},
        events \in SeqsUpTo(TimeSignatureEvents, MaxEvents) }
    \cup {ParamElement("TimeSignature", Element(PyStr(s_201)), FALSE, <<>>)}

VolumeParam == ParamElement("Volume", Element(PyStr(s_0_75)), TRUE, <<>>)

MasterTracks ==
    { None, TrackElement("MasterTrack", None, None, <<>>),
      TrackElement("MasterTrack", None, DeviceChainElement(None, None, None), <<>>) }
    \cup
    { TrackElement("MasterTrack", None,
                   DeviceChainElement(None, MixerElement(children), None), <<>>) :
        children \in {<<>>, <<VolumeParam>>}
                     \cup UNION {{<<ts>>, <<ts, VolumeParam>>, <<VolumeParam, ts>>} :
                                    ts \in TimeSignatureParams} }

\* ------------------------------------------------------------------ actions

Idle == [t |-> "idle"]

Init ==
    /\ op = "start"
    /\ elem = Idle
    /\ obj = Idle
    /\ ret = Idle

\* A call decodeTimeSignature(encoded) on a non-negative integer.
CallDecodeTimeSignature ==
    /\ op = "start"
    /\ \E encoded \in 0..MaxEncoded :
        /\ op' = "decodeTimeSignature"
        /\ elem' = PyInt(encoded)
        /\ obj' = Idle
        /\ ret' = decodeTimeSignature(PyInt(encoded))

\* A call guessTypeForValue(v), and the inferred type applied to v as
\* ALSTrackMixerParam.__init__ applies it.
CallGuessTypeForValue ==
    /\ op = "start"
    /\ \E v \in {None} \cup {PyStr(s) : s \in Strings} :
        /\ op' = "guessTypeForValue"
        /\ elem' = v
        /\ obj' = Idle
        /\ ret' = [type |-> guessTypeForValue(v),
                   value |-> Apply(guessTypeForValue(v), v)]

\* ALSNode.__init__(elem) of a class with the given valuefields table, on
\* an element with at most MaxSubelements of the subelements it selects.
NewALSNode ==
    /\ op = "start"
    /\ \E valuefields \in {LiveSetMidiClipData_valuefields, LiveSetTrackData_valuefields} :
       \E P \in Present(Selectors(valuefields), MaxSubelements) :
       \E g \in [P -> SubElements] :
        /\ op' = "ALSNode"
        /\ elem' = ElementWith(Selectors(valuefields), g) @@ [valuefields |-> valuefields]
        /\ obj' = ALSNode_init(valuefields, ElementWith(Selectors(valuefields), g))
        /\ ret' = Idle

\* ALSTrackMixerParam(elem)
NewALSTrackMixerParam ==
    /\ op = "start"
    /\ \E manual \in ManualElements :
       \E events \in SeqsUpTo(AutomationEvents, MaxEvents) :
        /\ op' = "ALSTrackMixerParam"
        /\ elem' = ParamElement("Volume", manual, TRUE, events)
        /\ obj' = ALSTrackMixerParam_init(ParamElement("Volume", manual, TRUE, events))
        /\ ret' = Idle

\* LiveSetDeviceData(elem)
NewLiveSetDeviceData ==
    /\ op = "start"
    /\ \E tag \in {s_Reverb, s_AuPluginDevice} :
       \E userName \in NameElements(s_Lead) :
       \E auName \in NameElements(s_Synth) :
       \E plugName \in NameElements(s_Vst) :
       \E buffer \in Buffers :
        LET e == DeviceElement(PyStr(tag), userName, auName, plugName, buffer)
        IN  /\ op' = "LiveSetDeviceData"
            /\ elem' = e
            /\ obj' = LiveSetDeviceData_init(e)
            /\ ret' = Idle

\* LiveSetMidiClipData(elem) on the clip element `clip`.
BuildClip(clip) ==
    /\ op' = "LiveSetMidiClipData"
    /\ elem' = clip
    /\ obj' = LiveSetMidiClipData_init(clip)
    /\ ret' = Idle

\* LiveSetMidiClipData(elem), on a clip with up to MaxSubelements of the
\* field subelements, on a clip with up to MaxNotes warp markers, or on a
\* clip with up to MaxNotes notes in three KeyTracks.
NewLiveSetMidiClipData ==
    /\ op = "start"
    /\ \/ \E P \in Present(ClipSelectors, MaxSubelements) :
          \E g \in [P -> SubElements] :
            BuildClip(ClipElement(ElementWith(ClipSelectors, g).sub, <<>>, <<>>))
       \/ \E w \in SeqsUpTo(WarpMarkerElements, MaxNotes) :
            BuildClip(ClipElement(NoSubelements, w, <<>>))
       \/ \E s \in SeqsUpTo(NoteElements, MaxNotes) :
          \E pq \in Cuts(Len(s)) :
          \E keys \in MidiKeys :
            BuildClip(ClipElement(NoSubelements, <<>>, KeyTracks(keys, s, pq[1], pq[2])))

\* LiveSetTrackData(elem)
NewLiveSetTrackData ==
    /\ op = "start"
    /\ \E name \in {None, Element(PyStr(s_Lead))} :
       \E deviceChain \in DeviceChains :
       \E midiclips \in TrackClips :
        LET e == TrackElement("MidiTrack", name, deviceChain, midiclips)
        IN  /\ op' = "LiveSetTrackData"
            /\ elem' = e
            /\ obj' = LiveSetTrackData_init(e)
            /\ ret' = Idle

\* LiveSetData(path), on the LiveSet element the file at path holds.
NewLiveSetData ==
    /\ op = "start"
    /\ \E tracks \in {<<>>, <<TrackElement("MidiTrack", None, None, <<>>)>>} :
       \E masterTrack \in MasterTracks :
        /\ op' = "LiveSetData"
        /\ elem' = LiveSetElement(tracks, masterTrack)
        /\ obj' = LiveSetData_init(LiveSetElement(tracks, masterTrack))
        /\ ret' = Idle

\* lsd.timeSignatures() on a loaded LiveSetData.
CallTimeSignatures ==
    /\ op = "LiveSetData"
    /\ ~IsRaise(obj)
    /\ op' = "timeSignatures"
    /\ ret' = timeSignatures(obj)
    /\ UNCHANGED <<elem, obj>>

Next ==
    \/ CallDecodeTimeSignature
    \/ CallGuessTypeForValue
    \/ NewALSNode
    \/ NewALSTrackMixerParam
    \/ NewLiveSetDeviceData
    \/ NewLiveSetMidiClipData
    \/ NewLiveSetTrackData
    \/ NewLiveSetData
    \/ CallTimeSignatures

Spec == Init /\ [][Next]_vars

\* ------------------------------------------------------------------- claims

\* C1: for every non-negative integer encoded, decodeTimeSignature(encoded)
\* is (encoded mod 99 + 1, 2^(encoded div 99)): the numerator is in 1..99,
\* the denominator is a power of two, and 0 -> (1,1), 98 -> (99,1),
\* 99 -> (1,2), 198 -> (1,4).
C1_DecodeTimeSignature ==
    op = "decodeTimeSignature" =>
        LET e == elem.i
        IN  /\ ret = Tuple((e % 99) + 1, 2^(e \div 99))
            /\ ret.x \in 1..99
            /\ \E k \in 0..e : ret.y = 2^k
            /\ (e = 0 => ret = Tuple(1, 1))
            /\ (e = 98 => ret = Tuple(99, 1))
            /\ (e = 99 => ret = Tuple(1, 2))
            /\ (e = 198 => ret = Tuple(1, 4))

C1_Witness == op = "decodeTimeSignature" /\ elem = PyInt(198) /\ ret = Tuple(1, 4)

\* The events of the last child of the master track's mixer that is named
\* TimeSignature and has automation, as the document gives them.
TimeSignatureElement(live_set) ==
    LET found == WithAutomation(live_set.MasterTrack.DeviceChain.Mixer.children)
    IN  found[CHOOSE k \in 1..Len(found) :
                 /\ found[k].tag = "TimeSignature"
                 /\ \A j \in (k + 1)..Len(found) : found[j].tag # "TimeSignature"]

\* C2: what timeSignatures() returns has the length and the order of the
\* automation events of the master track mixer's TimeSignature parameter;
\* its i-th entry is (max(time_i, 0), decodeTimeSignature(value_i)):
\* negative times become zero, other times are unchanged, and the events are
\* not sorted.  It returns whenever the parameter's values are non-negative
\* integers.
C2_TimeSignatures ==
    (op = "timeSignatures") =>
        /\ (ret.t = "list" =>
              LET raw == TimeSignatureElement(elem).events
                  built == obj.mastertrack.mixer.params["TimeSignature"].events
              IN  /\ Len(ret.items) = Len(raw)
                  /\ \A i \in 1..Len(raw) :
                        LET time == IntOf(raw[i].Time.s)
                            value == AsInt(built[i].y)
                        IN  /\ (time < 0 => ret.items[i].x = PyInt(0))
                            /\ (time >= 0 => ret.items[i].x = PyInt(time))
                            /\ ret.items[i].y = Tuple((value % 99) + 1, 2^(value \div 99)))
        /\ ((/\ obj.mastertrack # None
             /\ obj.mastertrack.mixer # None
             /\ "TimeSignature" \in DOMAIN obj.mastertrack.mixer.params
             /\ obj.mastertrack.mixer.params["TimeSignature"].type = "int"
             /\ \A i \in 1..Len(obj.mastertrack.mixer.params["TimeSignature"].events) :
                   obj.mastertrack.mixer.params["TimeSignature"].events[i].y.i >= 0)
            => ret.t = "list")

\* Two events out of time order, the first after and the second before time
\* zero: the order is kept and the negative time becomes zero.
C2_Witness ==
    /\ op = "timeSignatures"
    /\ ret.t = "list"
    /\ TimeSignatureElement(elem).events =
          <<AutomationEvent(PyStr(<<"1", "0">>), PyStr(s_201)),
            AutomationEvent(PyStr(<<"-", "1">>), PyStr(s_3))>>
    /\ ret.items = <<Tuple(PyInt(10), Tuple(4, 4)), Tuple(PyInt(0), Tuple(4, 1))>>

\* C3: type inference follows a fixed precedence: None infers no type;
\* exactly "true" or "false" infers boolean; otherwise a value int() accepts
\* infers integer; otherwise a value float() accepts infers float; otherwise
\* no type (an opaque string).  Applying the inferred type gives
\* "true" -> True, "false" -> False, "3" -> 3, "2.5" -> 2.5, "abc" -> "abc".
C3_TypeInference ==
    op = "guessTypeForValue" =>
        /\ (elem = None => ret.type = NoType /\ ret.value = None)
        /\ (elem.t = "str" =>
              LET s == elem.s
                  isBool == s \in {s_true, s_false}
              IN  /\ (isBool => ret.type = "BoolValue" /\ ret.value.t = "bool")
                  /\ (~isBool /\ IntParses(s) => ret.type = "int" /\ ret.value.t = "int")
                  /\ (~isBool /\ ~IntParses(s) /\ FloatParses(s) =>
                          ret.type = "float" /\ ret.value.t = "float")
                  /\ (~isBool /\ ~IntParses(s) /\ ~FloatParses(s) =>
                          ret.type = NoType /\ ret.value = elem)
                  /\ (s = s_true => ret.value = PyBool(TRUE))
                  /\ (s = s_false => ret.value = PyBool(FALSE))
                  /\ (s = s_3 => ret.value = PyInt(3))
                  /\ (s = s_2_5 => ret.value = PyFloat(25, 10))
                  /\ (s = s_abc => ret.value = PyStr(s_abc)))

C3_Witness ==
    /\ op = "guessTypeForValue"
    /\ elem = PyStr(s_2_5)
    /\ ret = [type |-> "float", value |-> PyFloat(25, 10)]


\* The note events of the KeyTracks in document order, each with the index
\* of its KeyTrack.
RECURSIVE DocumentOrder(_, _)
DocumentOrder(keytracks, k) ==
    IF k > Len(keytracks) THEN <<>>
    ELSE [j \in 1..Len(keytracks[k].events) |-> [ktrk |-> k, ev |-> keytracks[k].events[j]]]
         \o DocumentOrder(keytracks, k + 1)

Orderings(n) == {p \in [1..n -> 1..n] : \A i, j \in 1..n : i # j => p[i] # p[j]}

\* C4: the notes of a built clip are exactly one note per note event of
\* every KeyTrack, non-decreasing in time, and notes with equal time keep the
\* order of the concatenation (KeyTrack order, then event order).
C4_NotesSorted ==
    (op = "LiveSetMidiClipData" /\ ~IsRaise(obj)) =>
        LET doc == DocumentOrder(elem.keytracks, 1)
            notes == obj.notes
        IN  /\ Len(notes) = Len(doc)
            /\ \A i \in 1..(Len(notes) - 1) : ~FloatLess(notes[i + 1].time, notes[i].time)
            /\ \E p \in Orderings(Len(doc)) :
                  /\ \A i \in 1..Len(notes) :
                        LET src == doc[p[i]]
                            midiKey == elem.keytracks[src.ktrk].MidiKey
                        IN  /\ notes[i].time = FloatOf(src.ev.Time.s)
                            /\ notes[i].duration = FloatOf(src.ev.Duration.s)
                            /\ notes[i].isEnabled = PyBool(src.ev.IsEnabled.s = s_true)
                            /\ notes[i].key = IF midiKey = None THEN None
                                              ELSE PyInt(IntOf(midiKey.Value.s))
                  /\ \A i, j \in 1..Len(notes) :
                        (i < j /\ notes[i].time = notes[j].time) => p[i] < p[j]

\* Notes of two KeyTracks given out of time order, two of them at the same
\* time: the earlier KeyTrack's note stays first.
C4_Witness ==
    /\ op = "LiveSetMidiClipData"
    /\ ~IsRaise(obj)
    /\ Len(elem.keytracks) = 3
    /\ Len(elem.keytracks[1].events) = 2
    /\ Len(elem.keytracks[2].events) = 1
    /\ elem.keytracks[1].events[1].Time = PyStr(<<"1", ".", "0">>)
    /\ elem.keytracks[1].events[2].Time = PyStr(<<"0">>)
    /\ elem.keytracks[2].events[1].Time = PyStr(s_1)
    /\ Len(obj.notes) = 3
    /\ obj.notes[1].time = PyFloat(0, 1)
    /\ obj.notes[2].duration = PyFloat(25, 10)
    /\ obj.notes[3].key = PyInt(61)

\* C5: for every built clip, length is None if and only if currentStart or
\* currentEnd is None, and whenever both are present length equals
\* currentEnd - currentStart, also when the two are equal.
C5_Length ==
    (op = "LiveSetMidiClipData" /\ ~IsRaise(obj)) =>
        LET start == obj.dict["currentStart"]
            end == obj.dict["currentEnd"]
        IN  /\ (obj.length = None <=> (start = None \/ end = None))
            /\ (start # None /\ end # None => obj.length = FloatSub(end, start))

\* C6: a built device with an explicit non-empty user name resolves
\* presetName to that user name, whatever AU or VST plugin descriptor and
\* whatever preset buffer the element also carries.
C6_UserNameWins ==
    (op = "LiveSetDeviceData" /\ ~IsRaise(obj)) =>
        LET userName == elem.sub["UserName"]
        IN  (userName # None /\ userName.Value # None /\ Len(userName.Value.s) > 0) =>
                obj.presetName = userName.Value

C6_Witness ==
    /\ op = "LiveSetDeviceData"
    /\ elem.sub["UserName"] = Element(PyStr(s_Lead))
    /\ elem.sub["PluginDesc/AuPluginInfo/Name"] = Element(PyStr(s_Synth))
    /\ elem.sub["PluginDesc/VstPluginInfo/PlugName"] = Element(PyStr(s_Vst))
    /\ elem.buffer = PlistDict([k \in {"name"} |-> PyStr(s_Pad)])
    /\ ~IsRaise(obj)
    /\ obj.presetName = PyStr(s_Lead)

\* The first of the candidates a, b, c that is present and non-empty, else
\* the empty string.
FirstNonEmpty(a, b, c) ==
    IF a # None /\ Len(a.s) > 0 THEN a
    ELSE IF b # None /\ Len(b.s) > 0 THEN b
    ELSE IF c # None /\ Len(c.s) > 0 THEN c
    ELSE PyStr(<<>>)

StartsWithSep(v) == Len(v.s) >= 2 /\ SubSeq(v.s, 1, 2) = s_sep

\* C7: presetName is the first non-empty candidate among (a) the user name,
\* (b) the AU descriptor's declared name, followed by ": " and the
\* preset-buffer name only when that name is present, (c) the VST
\* descriptor's name, (d) the empty string; candidate (b) is never the
\* preset-buffer name alone and never starts with ": "; a device without a
\* preset buffer is built and resolves through (a), (c), (d) or the bare
\* descriptor name.
C7_PresetNameOrder ==
    (op = "LiveSetDeviceData") =>
        LET a == valueForSubtag(elem, "UserName")
            au == find(elem, "PluginDesc/AuPluginInfo/Name")
            c == valueForSubtag(elem, "PluginDesc/VstPluginInfo/PlugName")
        IN  /\ (elem.buffer = None =>
                  /\ ~IsRaise(obj)
                  /\ obj.presetName \in
                        ({a, c, PyStr(<<>>)} \cup (IF au = None THEN {} ELSE {au.Value}))
                        \ {None})
            /\ (~IsRaise(obj) =>
                  LET pn == obj.auPresetName
                      b == IF au = None \/ au.Value = None THEN None
                           ELSE IF pn = None THEN au.Value
                           ELSE PyStr(au.Value.s \o s_sep \o pn.s)
                      cand == AuCandidate(elem, pn)
                  IN  /\ obj.presetName = FirstNonEmpty(a, b, c)
                      /\ (cand # None /\ pn # None /\ Len(pn.s) > 0 => cand # pn)
                      /\ (cand # None => ~StartsWithSep(cand)))

\* C8: for every entry of a valuefields table, ALSNode.__init__ sets the
\* target field to None when no subelement matches the selector or the
\* matched subelement has no Value attribute, to the raw string unchanged
\* when the conversion fails on it, and to the converted value otherwise;
\* every target field is set and the constructor does not raise.
C8_FieldExtraction ==
    (op = "ALSNode") =>
        /\ ~IsRaise(obj)
        /\ \A k \in 1..Len(elem.valuefields) :
              LET r == Resolve(elem.valuefields[k])
                  found == elem.sub[r.sel]
                  field == obj.dict[r.ivar]
              IN  /\ r.ivar \in DOMAIN obj.dict
                  /\ (found = None => field = None)
                  /\ (found # None /\ found.Value = None => field = None)
                  /\ (found # None /\ found.Value # None =>
                        LET raw == found.Value
                        IN  CASE r.vtype = "int" ->
                                    IF IntParses(raw.s) THEN field = PyInt(IntOf(raw.s))
                                    ELSE field = raw
                              [] r.vtype = "float" ->
                                    IF FloatParses(raw.s) THEN field = FloatOf(raw.s)
                                    ELSE field = raw
                              [] OTHER -> field = raw)

C8_Witness ==
    /\ op = "ALSNode"
    /\ elem.valuefields = LiveSetMidiClipData_valuefields
    /\ elem.sub["CurrentStart"] = Element(PyStr(<<"a">>))
    /\ elem.sub["LaunchMode"] = Element(PyStr(<<"1">>))
    /\ ~IsRaise(obj)
    /\ obj.dict["currentStart"] = PyStr(<<"a">>)
    /\ obj.dict["launchMode"] = PyInt(1)
    /\ obj.dict["currentEnd"] = None

\* Whether v is a value of the type self.type names; with no type inferred
\* the values are left as they were read, a str or None.
OfType(type, v) ==
    CASE type = "BoolValue" -> v.t = "bool"
      [] type = "int" -> v.t = "int"
      [] type = "float" -> v.t = "float"
      [] OTHER -> v.t \in {"str", "none"}

\* C9: for every built ALSTrackMixerParam one type is inferred once from
\* the manual value, and the manual value and the value of every automation
\* event are of that single type (unconverted when no type is inferred);
\* the events are kept in document order with their integer times
\* unclamped; manual "0.75" with no events gives manual = 0.75 (a float)
\* and events = [].
C9_OneInferredType ==
    (op = "ALSTrackMixerParam" /\ ~IsRaise(obj)) =>
        LET manual == valueForSubtag(elem, "Manual")
        IN  /\ obj.type \in TypeFuncs \cup {NoType}
            /\ (manual # None /\ manual.s = s_0_75 => obj.type = "float")
            /\ (manual # None /\ manual.s = s_3 => obj.type = "int")
            /\ (manual # None /\ manual.s = s_true => obj.type = "BoolValue")
            /\ OfType(obj.type, obj.manual)
            /\ Len(obj.events) = Len(elem.events)
            /\ \A k \in 1..Len(obj.events) :
                  /\ OfType(obj.type, obj.events[k].y)
                  /\ (obj.type = NoType => obj.events[k].y = elem.events[k].Value)
                  /\ obj.events[k].x = PyInt(IntOf(elem.events[k].Time.s))
            /\ (manual # None /\ manual.s = s_0_75 /\ elem.events = <<>> =>
                  obj.manual = PyFloat(75, 100) /\ obj.events = <<>>)

C9_Witness ==
    /\ op = "ALSTrackMixerParam"
    /\ elem.sub["Manual"] = Element(PyStr(s_3))
    /\ elem.events = <<AutomationEvent(PyStr(<<"1">>), PyStr(s_3)),
                       AutomationEvent(PyStr(<<"-", "1">>), PyStr(s_3))>>
    /\ ~IsRaise(obj)
    /\ obj.manual = PyInt(3)
    /\ obj.events = <<Tuple(PyInt(1), PyInt(3)), Tuple(PyInt(-1), PyInt(3))>>


\* C10: building a track never fails because a container is missing (it
\* fails only when building one of its devices, its mixer or one of its clips
\* fails): a track with no device chain, or a device chain with no device
\* container, has devices = []; a track with no mixer element has mixer =
\* None; a track missing a container on the path to the clip-slot list has
\* clipslots = []; when the containers exist the devices are listed in
\* document order.
C10_MissingContainers ==
    (op = "LiveSetTrackData") =>
        LET dc == elem.DeviceChain
            devices_elem == IF dc = None \/ dc.DeviceChain = None THEN None
                            ELSE dc.DeviceChain.Devices
            mixer_elem == IF dc = None THEN None ELSE dc.Mixer
            list_elem == IF dc = None \/ dc.MainSequencer = None THEN None
                         ELSE dc.MainSequencer.ClipSlotList
            partFails ==
                \/ /\ devices_elem # None
                   /\ \E k \in 1..Len(devices_elem.children) :
                         IsRaise(LiveSetDeviceData_init(devices_elem.children[k]))
                \/ mixer_elem # None /\ IsRaise(ALSTrackMixer_init(mixer_elem))
                \/ \E k \in 1..Len(elem.midiclips) :
                         IsRaise(LiveSetMidiClipData_init(elem.midiclips[k]))
        IN  /\ (IsRaise(obj) => partFails)
            /\ (~IsRaise(obj) =>
                  /\ (devices_elem = None => obj.devices = <<>>)
                  /\ (mixer_elem = None => obj.mixer = None)
                  /\ (list_elem = None => obj.clipslots = <<>>)
                  /\ (list_elem # None => obj.clipslots = list_elem.children)
                  /\ (devices_elem # None =>
                        /\ Len(obj.devices) = Len(devices_elem.children)
                        /\ \A k \in 1..Len(obj.devices) :
                              /\ obj.devices[k].deviceType = devices_elem.children[k].tag
                              /\ obj.devices[k].auPresetName =
                                    IF devices_elem.children[k].buffer = None THEN None
                                    ELSE PyStr(s_Pad)))

\* A track without a device chain that has a clip below it.
C10_Witness ==
    /\ op = "LiveSetTrackData"
    /\ elem.DeviceChain = None
    /\ Len(elem.midiclips) = 1
    /\ ~IsRaise(obj)
    /\ obj.devices = <<>>
    /\ obj.mixer = None
    /\ obj.clipslots = <<>>
    /\ Len(obj.midiclips) = 1

=============================================================================
